---- MODULE Spec2Model ----
(***************************************************************************)
(* Model of scripts/process_dataset.py: the coordinator main() that scans   *)
(* an input tree for videos, skips the ones its on-disk markers settle,     *)
(* and runs every other one in a worker process of its own                  *)
(* (process_single_video), reading the worker's exit code after join.       *)
(*                                                                          *)
(* Strings are sequences of one-character strings so that suffix, stem,     *)
(* lower-casing, the cam(\d+) search and the path sort are computed.        *)
(* A path below the input root is its sequence of components; an output    *)
(* directory is the sequence of components below the output root.           *)
(***************************************************************************)
EXTENDS Integers, Sequences, FiniteSets, TLC

\* ------------------------------------------------------------------ bounds
MaxFiles == 2      \* files in the input tree
MaxRuns == 2       \* invocations of main() in one behaviour

\* ----------------------------------------------------------------- strings
\* Code points of the characters that occur in the modelled names.
Ord(c) ==
    CASE c = "." -> 46 [] c = "1" -> 49 [] c = "4" -> 52 [] c = "9" -> 57
      [] c = "M" -> 77 [] c = "P" -> 80
      [] c = "a" -> 97 [] c = "c" -> 99 [] c = "i" -> 105 [] c = "k" -> 107
      [] c = "m" -> 109 [] c = "o" -> 111 [] c = "p" -> 112 [] c = "s" -> 115 [] c = "t" -> 116 [] c = "v" -> 118
      [] c = "x" -> 120

\* str.lower() on one character.
LowerChar(c) == IF c = "M" THEN "m" ELSE IF c = "P" THEN "p" ELSE c

\* str.lower()
Lower(s) == [k \in 1..Len(s) |-> LowerChar(s[k])]

IsDigit(c) == c \in {"1", "4", "9"}

\* Python's str comparison: code point by code point, a proper prefix first.
RECURSIVE StrLess(_, _)
StrLess(s, t) ==
    IF t = <<>> THEN FALSE
    ELSE IF s = <<>> THEN TRUE
    ELSE IF Ord(Head(s)) # Ord(Head(t)) THEN Ord(Head(s)) < Ord(Head(t))
    ELSE StrLess(Tail(s), Tail(t))

\* Path.__lt__: the tuples of components compare lexicographically.
RECURSIVE PathLess(_, _)
PathLess(a, b) ==
    IF b = <<>> THEN FALSE
    ELSE IF a = <<>> THEN TRUE
    ELSE IF Head(a) # Head(b) THEN StrLess(Head(a), Head(b))
    ELSE PathLess(Tail(a), Tail(b))

\* name.rfind('.'), 0 when there is none (positions are 1-based).
RFindDot(name) ==
    LET ds == {k \in 1..Len(name) : name[k] = "."}
    IN IF ds = {} THEN 0 ELSE CHOOSE k \in ds : \A l \in ds : l <= k

\* Path.suffix: from the last dot, unless the dot is first or last.
Suffix(name) ==
    LET d == RFindDot(name)
    IN IF 1 < d /\ d < Len(name) THEN SubSeq(name, d, Len(name)) ELSE <<>>

\* Path.stem
Stem(name) ==
    LET d == RFindDot(name)
    IN IF 1 < d /\ d < Len(name) THEN SubSeq(name, 1, d - 1) ELSE name

\* The file name of a path, and its directory.
Name(path) == path[Len(path)]
Parent(path) == SubSeq(path, 1, Len(path) - 1)

video_extensions ==
    { <<".", "m", "p", "4">>, <<".", "a", "v", "i">>,
      <<".", "m", "o", "v">>, <<".", "m", "k", "v">> }

\* Mutant of IsVideo: the suffix is compared as it is spelled.
IsVideo_CaseSensitive(path) == Suffix(Name(path)) \in video_extensions

\* Line 88: the lower-cased suffix is in the allow-list.
IsVideo(path) == Lower(Suffix(Name(path))) \in video_extensions

\* re.search(r'cam(\d+)', video_name): the positions where "cam" and a digit follow.
CamMatches(s) ==
    {k \in 1..(Len(s) - 3) :
        /\ s[k] = "c" /\ s[k + 1] = "a" /\ s[k + 2] = "m"
        /\ IsDigit(s[k + 3])}

HasCam(s) == CamMatches(s) # {}

\* match.group(1): the longest run of digits after the leftmost "cam".
cam_id(s) ==
    LET k == CHOOSE m \in CamMatches(s) : \A n \in CamMatches(s) : m <= n
        e == CHOOSE m \in (k + 3)..Len(s) :
                /\ \A n \in (k + 3)..m : IsDigit(s[n])
                /\ (m = Len(s) \/ ~IsDigit(s[m + 1]))
    IN SubSeq(s, k + 3, e)

\* output_path / rel_path / video_name, as components below the output root.
current_output_dir(path) == Append(Parent(path), Stem(Name(path)))

\* ------------------------------------------------------------- environment
\* The paths the input tree may hold, below input_root.
Universe ==
    { << <<"c", "a", "m", "1", ".", "m", "p", "4">> >>,
      << <<"c", "a", "m", "1", ".", "a", "v", "i">> >>,
      << <<"s">>, <<"c", "a", "m", "9", ".", "M", "P", "4">> >>,
      << <<"c", ".", "m", "p", "4">> >>,
      << <<"a", ".", "t", "x", "t">> >> }

\* The paths that the scan of lines 86-89 keeps.
Videos == {p \in Universe : IsVideo(p)}

\* Lines 109 and 124-129 for each path: the camera id found in its stem, as a
\* set that is empty when the search finds no match.
Match ==
    [p \in Universe |->
        IF HasCam(Stem(Name(p))) THEN {cam_id(Stem(Name(p)))} ELSE {}]

\* The position of each path among all the paths in the order of PathLess.
Rank == [p \in Universe |-> Cardinality({q \in Universe : PathLess(q, p)})]

\* sorted(): the one ordering of a set of distinct paths by PathLess; the
\* path at position k has k - 1 paths of the set before it.
SortPaths(S) ==
    [k \in 1..Cardinality(S) |->
        CHOOSE x \in S : Cardinality({y \in S : Rank[y] < Rank[x]}) = k - 1]

\* The camera ids a calibration root may hold a <id>.txt for.
CalibIds == { <<"1">>, <<"9">> }

\* The output directory of each path above, and all of them.
OutDirOf == [p \in Universe |-> current_output_dir(p)]
OutDirs == {OutDirOf[p] : p \in Universe}

\* The exit codes a worker can end with by itself: 1 from its except branch,
\* any other from a SystemExit that passes "except Exception".
AppExitCodes == {1, 247}

\* The signals that can end a worker (SIGKILL, SIGTERM).
Signals == {9, 15}

VARIABLES
    input_exists,   \* input_path.exists()
    tree,           \* the files below input_root
    calib,          \* the ids with a calibration file below calib_root
    fs,             \* per output directory: dir, results (results.pkl),
                    \* marker (FAILED_RUN.txt) and its lines
    pc,             \* where the coordinator is
    run,            \* how many times main() was invoked
    video_files,    \* the sorted scan of this run
    i,              \* position of the loop in video_files
    exitcode,       \* p.exitcode, read after p.join()
    workers,        \* the worker processes that exist
    Output,         \* what main() has written to stdout in this run (the
                    \* workers' own prints are not in it)
    trace,          \* history: the branch each visited descriptor of this run took
    spawned,        \* history: the files this run started a worker for
    prev,           \* history: how the previous run ended
    cut,            \* history: the attempts an interrupt cut after their marker was written
    startClass      \* history: the ledger classification when this run began

vars == <<input_exists, tree, calib, fs, pc, run, video_files, i, exitcode,
          workers, Output, trace, spawned, prev, cut, startClass>>

env == <<input_exists, tree, calib>>
hist == <<trace, spawned, prev, cut, startClass>>

\* ------------------------------------------------------------------ ledger
NoEntry == [dir |-> FALSE, results |-> FALSE, marker |-> FALSE, lines |-> <<>>]

StartedLine(name) == [kind |-> "started", name |-> name, code |-> 0]
OOMLine(code) == [kind |-> "oom", name |-> <<>>, code |-> code]
FailedLine(code) == [kind |-> "failed", name |-> <<>>, code |-> code]

\* The ledger of a directory an earlier invocation completed, or failed in.
DoneEntry == [dir |-> TRUE, results |-> TRUE, marker |-> FALSE, lines |-> <<>>]
FailedEntry(d) ==
    LET p == CHOOSE q \in Universe : current_output_dir(q) = d
    IN [dir |-> TRUE, results |-> FALSE, marker |-> TRUE,
        lines |-> <<StartedLine(Name(p)), FailedLine(1)>>]

\* Mutant of Classify: the failure marker is tested before results.pkl.
Classify_MarkerFirst(e) ==
    IF e.dir /\ e.marker THEN "PreviouslyFailed"
    ELSE IF e.dir /\ e.results THEN "Done"
    ELSE "NotStarted"

\* The skip decision of lines 115-121 as a three-way classification.
Classify(e) ==
    IF e.dir /\ e.results THEN "Done"
    ELSE IF e.dir /\ e.marker THEN "PreviouslyFailed"
    ELSE "NotStarted"

\* Lines 124-134: a camera id is found and its calibration file exists.
Processable(path) ==
    /\ Match[path] # {}
    /\ Match[path] \subseteq calib

\* Lines 86-87: os.walk yields every file of the tree once, in an order the
\* file system chooses.
WalkOrders(t) ==
    {w \in [1..Cardinality(t) -> t] :
        \A a, b \in 1..Cardinality(t) : a # b => w[a] # w[b]}

\* Lines 83-89: video_files before the sort, the videos in walk order.
Found(walk) == SelectSeq(walk, LAMBDA p : p \in Videos)

\* Lines 86-92: the video files found by a walk, sorted.
Scan(walk) == SortPaths({Found(walk)[k] : k \in DOMAIN Found(walk)})

\* The input trees of the model, and for each the lists that the scan of
\* lines 86-92 can yield, one per order of the directory walk.
Trees == {t \in SUBSET Universe : Cardinality(t) <= MaxFiles}
Scans == [t \in Trees |-> {Scan(walk) : walk \in WalkOrders(t)}]

\* The output directories of the videos of a tree.
VideoDirs(t) == {current_output_dir(p) : p \in t \cap Videos}

\* The state before main() is first invoked: any small input tree, any
\* calibration root, and an output root in which an earlier invocation (with
\* another calibration root, say) may have left one directory done or failed.
Init ==
    /\ input_exists \in BOOLEAN
    /\ tree \in Trees
    /\ (~input_exists => tree = {})
    /\ calib \in SUBSET CalibIds
    /\ \E e \in SUBSET VideoDirs(tree) : \E k \in {"done", "failed"} :
         /\ Cardinality(e) <= 1
         /\ fs = [d \in OutDirs |->
                    IF d \notin e THEN NoEntry
                    ELSE IF k = "done" THEN DoneEntry ELSE FailedEntry(d)]
    /\ pc = "idle"
    /\ Output = <<>>
    /\ run = 0
    /\ video_files = <<>>
    /\ i = 1
    /\ exitcode = 0
    /\ workers = {}
    /\ trace = <<>>
    /\ spawned = <<>>
    /\ prev = "none"
    /\ cut = {}
    /\ startClass = [d \in OutDirs |-> Classify(fs[d])]

\* ------------------------------------------------------------- coordinator
video_file == video_files[i]
out == OutDirOf[video_file]

\* One line of standard output: print of lines 78, 85 and 94, pbar.write of
\* the loop.
Msg(kind, file) == [kind |-> kind, file |-> file]

\* The pbar.write calls of the branch that settles a descriptor: lines 117,
\* 120, 126, 132, 165-166 and 170; the exit-0 branch of lines 158-162 writes
\* nothing.
Written(branch, file) ==
    CASE branch = "SkippedAlreadyDone" -> <<Msg("skip-exists", file)>>
      [] branch = "SkippedPreviouslyFailed" -> <<Msg("skip-marker", file)>>
      [] branch = "SkippedNoCamera" -> <<Msg("no-camera", file)>>
      [] branch = "SkippedNoCalibration" -> <<Msg("no-calibration", file)>>
      [] branch = "Completed" -> <<>>
      [] branch = "CrashedOOM" -> <<Msg("crash", file), Msg("continuing", file)>>
      [] branch = "FailedOther" -> <<Msg("failed", file)>>

\* One descriptor is settled: record the branch and move to the next one;
\* the for loop ends after the last.
Advance(branch) ==
    /\ trace' = Append(trace, [file |-> video_file, out |-> branch])
    /\ Output' = Output \o Written(branch, video_file)
    /\ i' = i + 1
    /\ pc' = IF i + 1 > Len(video_files) THEN "done" ELSE "loop"

Ended == {"idle", "done", "dead", "crashed"}

\* What main() writes before the loop: the message of line 78 when the input
\* root is missing, else lines 85 and 94 around the scan.
Preamble ==
    IF input_exists THEN <<Msg("searching", <<>>), Msg("found", <<>>)>>
    ELSE <<Msg("error", <<>>)>>

\* main() is invoked: lines 68-100. It returns at once, after the message of
\* line 78, when the input root is missing; otherwise it writes line 85,
\* scans, writes the count of line 94 and returns when the tree holds no
\* video.
StartRun ==
    /\ pc \in Ended
    /\ run < MaxRuns
    /\ run' = run + 1
    /\ prev' = IF pc = "idle" THEN "none" ELSE pc
    /\ \E found \in Scans[tree] :
         video_files' = IF input_exists THEN found ELSE <<>>
    /\ Output' = Preamble
    /\ i' = 1
    /\ pc' = IF video_files' # <<>> THEN "loop" ELSE "done"
    /\ trace' = <<>>
    /\ spawned' = <<>>
    /\ startClass' = [d \in OutDirs |-> Classify(fs[d])]
    /\ UNCHANGED <<env, fs, exitcode, workers, cut>>

\* Mutant of SkipDone: the camera id and the calibration file are tested
\* before the ledger.
SkipDone_UnprocessableFirst ==
    /\ pc = "loop"
    /\ Classify(fs[out]) = "Done"
    /\ Advance(IF Processable(video_file) THEN "SkippedAlreadyDone"
               ELSE IF Match[video_file] = {} THEN "SkippedNoCamera"
               ELSE "SkippedNoCalibration")
    /\ UNCHANGED <<env, fs, run, video_files, exitcode, workers, spawned, prev,
                   cut, startClass>>

\* Lines 115-118: results.pkl exists.
SkipDone ==
    /\ pc = "loop"
    /\ Classify(fs[out]) = "Done"
    /\ Advance("SkippedAlreadyDone")
    /\ UNCHANGED <<env, fs, run, video_files, exitcode, workers, spawned, prev,
                   cut, startClass>>

\* Mutant of SkipFailed: a directory with a marker is attempted again.
SkipFailed_Retries ==
    /\ pc = "loop"
    /\ Classify(fs[out]) = "PreviouslyFailed"
    /\ pc' = "open"
    /\ UNCHANGED <<env, fs, run, video_files, i, exitcode, workers, hist, Output>>

\* Lines 119-121: FAILED_RUN.txt exists.
SkipFailed ==
    /\ pc = "loop"
    /\ Classify(fs[out]) = "PreviouslyFailed"
    /\ Advance("SkippedPreviouslyFailed")
    /\ UNCHANGED <<env, fs, run, video_files, exitcode, workers, spawned, prev,
                   cut, startClass>>

\* Lines 124-127: no cam<digits> in the name.
SkipNoCam ==
    /\ pc = "loop"
    /\ Classify(fs[out]) = "NotStarted"
    /\ Match[video_file] = {}
    /\ Advance("SkippedNoCamera")
    /\ UNCHANGED <<env, fs, run, video_files, exitcode, workers, spawned, prev,
                   cut, startClass>>

\* Mutant of SkipNoCalib: the descriptor is attempted without its calibration
\* file.
SkipNoCalib_Attempts ==
    /\ pc = "loop"
    /\ Classify(fs[out]) = "NotStarted"
    /\ Match[video_file] # {}
    /\ ~(Match[video_file] \subseteq calib)
    /\ Output' = Append(Output, Msg("spawning", video_file))
    /\ fs' = [fs EXCEPT ![out].dir = TRUE]
    /\ pc' = "open"
    /\ UNCHANGED <<env, run, video_files, i, exitcode, workers, hist>>

\* Mutant of SkipNoCalib: the output directory is created before the skip.
SkipNoCalib_MakesDir ==
    /\ pc = "loop"
    /\ Classify(fs[out]) = "NotStarted"
    /\ Match[video_file] # {}
    /\ ~(Match[video_file] \subseteq calib)
    /\ fs' = [fs EXCEPT ![out].dir = TRUE]
    /\ Advance("SkippedNoCalibration")
    /\ UNCHANGED <<env, run, video_files, exitcode, workers, spawned, prev,
                   cut, startClass>>

\* Lines 129-134: the calibration file is missing.
SkipNoCalib ==
    /\ pc = "loop"
    /\ Classify(fs[out]) = "NotStarted"
    /\ Match[video_file] # {}
    /\ ~(Match[video_file] \subseteq calib)
    /\ Advance("SkippedNoCalibration")
    /\ UNCHANGED <<env, fs, run, video_files, exitcode, workers, spawned, prev,
                   cut, startClass>>

\* The descriptor passed every skip test of lines 115-134.
Attempting ==
    /\ pc = "loop"
    /\ Classify(fs[out]) = "NotStarted"
    /\ Processable(video_file)

\* Mutant of Mkdir: the worker is started without the marker being written.
Mkdir_NoMarker ==
    /\ Attempting
    /\ Output' = Append(Output, Msg("spawning", video_file))
    /\ fs' = [fs EXCEPT ![out].dir = TRUE]
    /\ pc' = "start"
    /\ UNCHANGED <<env, run, video_files, i, exitcode, workers, hist>>

\* Lines 136-139: the "Spawning worker" message, then
\* current_output_dir.mkdir(parents=True, exist_ok=True).
Mkdir ==
    /\ Attempting
    /\ Output' = Append(Output, Msg("spawning", video_file))
    /\ fs' = [fs EXCEPT ![out].dir = TRUE]
    /\ pc' = "open"
    /\ UNCHANGED <<env, run, video_files, i, exitcode, workers, hist>>

\* Line 140: open(failed_marker, "w") creates or truncates the marker.
OpenMarker ==
    /\ pc = "open"
    /\ fs' = [fs EXCEPT ![out].marker = TRUE, ![out].lines = <<>>]
    /\ pc' = "write"
    /\ UNCHANGED <<env, run, video_files, i, exitcode, workers, hist, Output>>

\* Lines 140-141: the "started" line is written and the file closed.
WriteMarker ==
    /\ pc = "write"
    /\ fs' = [fs EXCEPT ![out].lines = Append(@, StartedLine(Name(video_file)))]
    /\ pc' = "start"
    /\ UNCHANGED <<env, run, video_files, i, exitcode, workers, hist, Output>>

\* Lines 146-152: the worker process is created and started.
StartWorker ==
    /\ pc = "start"
    /\ workers' = workers \cup
          {[file |-> video_file, run |-> run, wrote |-> FALSE, alive |-> TRUE, code |-> 0]}
    /\ spawned' = Append(spawned, video_file)
    /\ pc' = "join"
    /\ UNCHANGED <<env, fs, run, video_files, i, exitcode, Output, trace, prev,
                   cut, startClass>>

\* The worker p of the coordinator: started and not yet joined.
Owned(w) == pc = "join" /\ w.run = run /\ w.file = video_files[i]

\* Line 155: p.join() returns once the worker has ended; p.exitcode is set.
Join ==
    /\ pc = "join"
    /\ \E w \in workers :
         /\ Owned(w)
         /\ ~w.alive
         /\ exitcode' = w.code
         /\ workers' = workers \ {w}
    /\ pc' = "check"
    /\ UNCHANGED <<env, fs, run, video_files, i, hist, Output>>

\* Lines 158-162: exit code 0; the marker is unlinked if it exists.
Success ==
    /\ pc = "check"
    /\ exitcode = 0
    /\ fs' = [fs EXCEPT ![out].marker = FALSE, ![out].lines = <<>>]
    /\ Advance("Completed")
    /\ UNCHANGED <<env, run, video_files, exitcode, workers, spawned, prev,
                   cut, startClass>>

\* Mutant of IsOOM: only the signal form of the kill is recognised.
IsOOM_SignalOnly(code) == code = -9

\* The test of line 163.
IsOOM(code) == code = 247 \/ code = -9

\* Lines 163-168: the exit code of a kill; a line is appended to the marker.
CrashedOOM ==
    /\ pc = "check"
    /\ exitcode # 0
    /\ IsOOM(exitcode)
    /\ fs' = [fs EXCEPT ![out].marker = TRUE, ![out].lines = Append(@, OOMLine(exitcode))]
    /\ Advance("CrashedOOM")
    /\ UNCHANGED <<env, run, video_files, exitcode, workers, spawned, prev,
                   cut, startClass>>

\* Mutant of FailedOther: main() returns after recording the failure.
FailedOther_Returns ==
    /\ pc = "check"
    /\ exitcode # 0
    /\ ~IsOOM(exitcode)
    /\ fs' = [fs EXCEPT ![out].marker = TRUE, ![out].lines = Append(@, FailedLine(exitcode))]
    /\ trace' = Append(trace, [file |-> video_file, out |-> "FailedOther"])
    /\ Output' = Output \o Written("FailedOther", video_file)
    /\ pc' = "done"
    /\ UNCHANGED <<env, run, video_files, i, exitcode, workers, spawned, prev,
                   cut, startClass>>

\* Mutant of FailedOther: the result of the failed worker is removed.
FailedOther_ClearsOutput ==
    /\ pc = "check"
    /\ exitcode # 0
    /\ ~IsOOM(exitcode)
    /\ fs' = [fs EXCEPT ![out].marker = TRUE,
                        ![out].lines = Append(@, FailedLine(exitcode)),
                        ![out].results = FALSE]
    /\ Advance("FailedOther")
    /\ UNCHANGED <<env, run, video_files, exitcode, workers, spawned, prev,
                   cut, startClass>>

\* Mutant of FailedOther: the marker is opened for writing, not appending.
FailedOther_Overwrites ==
    /\ pc = "check"
    /\ exitcode # 0
    /\ ~IsOOM(exitcode)
    /\ fs' = [fs EXCEPT ![out].marker = TRUE,
                        ![out].lines = <<FailedLine(exitcode)>>]
    /\ Advance("FailedOther")
    /\ UNCHANGED <<env, run, video_files, exitcode, workers, spawned, prev,
                   cut, startClass>>

\* Lines 169-172: any other exit code; a line is appended to the marker.
FailedOther ==
    /\ pc = "check"
    /\ exitcode # 0
    /\ ~IsOOM(exitcode)
    /\ fs' = [fs EXCEPT ![out].marker = TRUE, ![out].lines = Append(@, FailedLine(exitcode))]
    /\ Advance("FailedOther")
    /\ UNCHANGED <<env, run, video_files, exitcode, workers, spawned, prev,
                   cut, startClass>>

\* A ledger operation raises OSError (permission, disk full) and nothing in
\* main() catches it: the exists() tests of lines 115, 116, 119 and 132;
\* mkdir of line 139, after the message of line 136; open or write of lines
\* 140-141; exists() or unlink of lines 160-161; open or write of lines
\* 167-168 and 171-172, after the messages of lines 165-166 and 170.
LedgerIOError ==
    /\ \/ /\ pc = "loop"
          /\ Output' = Output
       \/ /\ Attempting
          /\ Output' = Append(Output, Msg("spawning", video_file))
       \/ /\ pc \in {"open", "write"}
          /\ Output' = Output
       \/ /\ pc = "check"
          /\ Output' = Output \o
                 Written(IF exitcode = 0 THEN "Completed"
                         ELSE IF IsOOM(exitcode) THEN "CrashedOOM"
                         ELSE "FailedOther", video_file)
    /\ pc' = "crashed"
    /\ UNCHANGED <<env, fs, run, video_files, i, exitcode, workers, hist>>

\* The coordinator is in the for loop of lines 102-172.
Running == {"loop", "open", "write", "start", "join", "check"}

\* The messages of the step the coordinator is about to take: the skip
\* message or the "Spawning worker" message of lines 117-136 in the loop, the
\* messages of lines 165-166 or 170 after a non-zero exit code. The code
\* writes them before the ledger operation of the same step.
Pending ==
    IF pc = "loop"
    THEN CASE Classify(fs[out]) = "Done" ->
                 Written("SkippedAlreadyDone", video_file)
           [] Classify(fs[out]) = "PreviouslyFailed" ->
                 Written("SkippedPreviouslyFailed", video_file)
           [] Classify(fs[out]) = "NotStarted" /\ Match[video_file] = {} ->
                 Written("SkippedNoCamera", video_file)
           [] Classify(fs[out]) = "NotStarted" /\ Match[video_file] # {}
                 /\ ~(Match[video_file] \subseteq calib) ->
                 Written("SkippedNoCalibration", video_file)
           [] OTHER -> <<Msg("spawning", video_file)>>
    ELSE IF pc = "check" /\ exitcode # 0
    THEN Written(IF IsOOM(exitcode) THEN "CrashedOOM" ELSE "FailedOther",
                 video_file)
    ELSE <<>>

\* The coordinator process is ended from outside. main() has no handler, so
\* a signal ends it wherever it is: in the loop, after the loop or an early
\* return and before the process has exited (pc = "done"), or in a new
\* invocation before the loop is entered. It starts the worker as a
\* non-daemon process: the worker ends too when the signal went to the whole
\* process group (group), and runs on when it went to the coordinator alone.
\* The signal may fall inside the step the coordinator is taking, after any
\* number of its messages and before its ledger operation. A process killed
\* before the loop takes its list of videos with it.
Interrupt(group) ==
    \/ /\ pc \in Running \cup {"done"}
       /\ pc' = "dead"
       /\ \E n \in 0..Len(Pending) : Output' = Output \o SubSeq(Pending, 1, n)
       /\ cut' = IF pc \in {"start", "join", "check"}
                 THEN cut \cup {[file |-> video_file, run |-> run]}
                 ELSE cut
       /\ workers' = {w \in workers : w.alive /\ ~(group /\ Owned(w))}
       /\ UNCHANGED <<env, fs, run, video_files, i, exitcode, trace, spawned,
                      prev, startClass>>
    \/ /\ pc \in Ended
       /\ run < MaxRuns
       /\ run' = run + 1
       /\ prev' = IF pc = "idle" THEN "none" ELSE pc
       /\ pc' = "dead"
       /\ \E n \in 0..(Len(Preamble) - 1) : Output' = SubSeq(Preamble, 1, n)
       /\ video_files' = <<>>
       /\ i' = 1
       /\ trace' = <<>>
       /\ spawned' = <<>>
       /\ startClass' = [d \in OutDirs |-> Classify(fs[d])]
       /\ UNCHANGED <<env, fs, exitcode, workers, cut>>

\* ------------------------------------------------------------------ worker
\* A worker ends with a code: its coordinator reads the code at join; nobody
\* reads the code of a worker whose coordinator is gone.
Ends(w, code) ==
    workers' = IF Owned(w)
               THEN (workers \ {w}) \cup {[w EXCEPT !.alive = FALSE, !.code = code]}
               ELSE workers \ {w}

\* Lines 39-45: the pipeline saves results.pkl into the output directory.
WorkerWrite(w) ==
    /\ w.alive
    /\ ~w.wrote
    /\ fs' = [fs EXCEPT ![current_output_dir(w.file)].results = TRUE]
    /\ workers' = (workers \ {w}) \cup {[w EXCEPT !.wrote = TRUE]}
    /\ UNCHANGED <<env, pc, run, video_files, i, exitcode, hist, Output>>

\* Lines 47-51: the worker returns after the pipeline, whether or not the
\* pipeline saved a result, and the process exits 0; so it does on a
\* SystemExit(0), which line 53 does not catch.
WorkerFinish(w) ==
    /\ w.alive
    /\ Ends(w, 0)
    /\ UNCHANGED <<env, fs, pc, run, video_files, i, exitcode, hist, Output>>

\* Lines 53-57: an exception before or after the pipeline call gives
\* sys.exit(1); a SystemExit raised inside gives its own code.
WorkerError(w, code) ==
    /\ w.alive
    /\ Ends(w, code)
    /\ UNCHANGED <<env, fs, pc, run, video_files, i, exitcode, hist, Output>>

\* The worker is ended by a signal: multiprocessing reports -signal.
WorkerKilled(w, sig) ==
    /\ w.alive
    /\ Ends(w, 0 - sig)
    /\ UNCHANGED <<env, fs, pc, run, video_files, i, exitcode, hist, Output>>

process_single_video ==
    \E w \in workers :
        \/ WorkerWrite(w)
        \/ WorkerFinish(w)
        \/ \E code \in AppExitCodes : WorkerError(w, code)
        \/ \E sig \in Signals : WorkerKilled(w, sig)

\* ----------------------------------------------------------- specification
main ==
    \/ StartRun
    \/ SkipDone
    \/ SkipFailed
    \/ SkipNoCam
    \/ SkipNoCalib
    \/ Mkdir
    \/ OpenMarker
    \/ WriteMarker
    \/ StartWorker
    \/ Join
    \/ Success
    \/ CrashedOOM
    \/ FailedOther

Next ==
    \/ main
    \/ process_single_video
    \/ LedgerIOError
    \/ \E group \in BOOLEAN : Interrupt(group)

Spec == Init /\ [][Next]_vars

\* Runs that nothing interrupts and whose ledger operations succeed; every
\* step that can be taken is taken, so each worker ends.
NextRun == main \/ process_single_video

RunSpec == Init /\ [][NextRun]_vars /\ WF_vars(NextRun)

\* ------------------------------------------------------------------ claims
\* The descriptor files of the trace of this run, in order.
Visited == [k \in 1..Len(trace) |-> trace[k].file]

\* The branch the coordinator has just taken out of the exit-code test.
Settled == trace'[Len(trace')]

\* C1: whenever a worker process exists (started, not joined by its
\* coordinator), the output directory of its task exists and holds
\* FAILED_RUN.txt with the "started" line first; until the worker has written
\* results.pkl the directory classifies as PreviouslyFailed, and so it does
\* between begin_attempt and the start of the worker.
C1_MarkerBeforeWorker ==
    /\ \A w \in workers :
          LET e == fs[current_output_dir(w.file)]
          IN /\ e.dir
             /\ e.marker
             /\ Len(e.lines) >= 1
             /\ e.lines[1] = StartedLine(Name(w.file))
             /\ (~w.wrote => Classify(e) = "PreviouslyFailed")
    /\ (pc = "start" => Classify(fs[out]) = "PreviouslyFailed")

\* C1 witness: the coordinator waits in join for a running worker that has
\* written nothing yet.
C1_Witness ==
    /\ pc = "join"
    /\ \E w \in workers : Owned(w) /\ w.alive /\ ~w.wrote

\* C2: the step out of the exit-code test takes one branch by the exit code:
\* 0 gives Completed and no marker; -9 or 247 gives CrashedOOM and an OOM line
\* appended; any other code gives FailedOther and a failed line appended. Each
\* branch settles the descriptor and moves to the next one.
C2_ExitBranches ==
    [][(pc = "check" /\ pc' \in {"loop", "done"}) =>
          /\ Len(trace') = Len(trace) + 1
          /\ Settled.file = video_file
          /\ i' = i + 1
          /\ (pc' = "done") = (i = Len(video_files))
          /\ (exitcode = 0 =>
                /\ Settled.out = "Completed"
                /\ ~fs'[out].marker)
          /\ (exitcode \in {-9, 247} =>
                /\ Settled.out = "CrashedOOM"
                /\ fs'[out].marker
                /\ fs'[out].lines = Append(fs[out].lines, OOMLine(exitcode)))
          /\ (exitcode \notin {0, -9, 247} =>
                /\ Settled.out = "FailedOther"
                /\ fs'[out].marker
                /\ fs'[out].lines = Append(fs[out].lines, FailedLine(exitcode)))
      ]_vars

\* C2 witness: a descriptor settled as CrashedOOM whose marker ends with the
\* OOM line, and the loop went on to the next descriptor.
C2_Witness ==
    /\ pc = "loop"
    /\ \E k \in DOMAIN trace :
         LET e == fs[current_output_dir(trace[k].file)]
         IN /\ trace[k].out = "CrashedOOM"
            /\ e.marker
            /\ e.lines[Len(e.lines)].kind = "oom"

\* C3 (the claim as stated): every line the coordinator appended for a
\* negative exit code (a signal) is an OOM line, and every line appended for
\* an exit code in 1..255 is a failed line.
C3_SignalsAreKills ==
    \A d \in OutDirs : \A k \in DOMAIN fs[d].lines :
        LET l == fs[d].lines[k]
        IN /\ (l.code < 0 => l.kind = "oom")
           /\ (l.code \in 1..255 => l.kind = "failed")

\* C4: a run that follows a completed run starts no worker and does not even
\* begin an attempt (it may end early, by a signal or an uncaught ledger
\* error); and when a run completes, every file it started a worker for
\* classifies as Done or PreviouslyFailed.
C4_SecondRunIdle ==
    /\ (prev = "done" =>
          /\ spawned = <<>>
          /\ pc \notin {"open", "write", "start", "join", "check"})
    /\ (pc = "done" =>
          \A k \in DOMAIN spawned :
             Classify(fs[current_output_dir(spawned[k])]) # "NotStarted")

\* C5: with ledger operations that succeed and no interrupt, every run that
\* enters the loop reaches its end, whatever the workers' exit codes; at the
\* end the descriptors settled are exactly the sorted scan, each once and in
\* order, and the loop position is past the last one.
C5_VisitsAll ==
    /\ [](pc = "done" => Visited = video_files /\ i = Len(video_files) + 1)
    /\ []((pc = "loop" /\ i = 1) => <>(pc = "done"))

\* C5 witness: a run is over that settled two descriptors, the first of them
\* with a failed or killed worker.
C5_Witness ==
    /\ pc = "done"
    /\ Len(trace) >= 2
    /\ trace[1].out \in {"CrashedOOM", "FailedOther"}

\* C6 (the claim as stated): a ledger operation that fails does not end the
\* coordinator; the batch is never aborted by it.
C6_LedgerFailureNotFatal == pc # "crashed"

\* C7 (the claim as stated): when the coordinator process has ended, no
\* worker it started is still running.
C7_NoOrphan == pc \in Ended => \A w \in workers : ~w.alive

\* C8 (the claim as stated): at most one worker process runs at any time,
\* across runs, interrupts and restarts.
C8_OneWorker == Cardinality({w \in workers : w.alive}) <= 1

\* The output directory of an attempt an interrupt cut.
CutDir(c) == current_output_dir(c.file)

\* C9 (the claim as stated): after an interrupt between begin_attempt and the
\* handling of the exit code, the marker holds the "started" line alone and
\* the directory classifies as PreviouslyFailed. Stated for the attempts
\* whose worker is gone, so that no worker left running is needed to refute it.
C9_InterruptLeavesPreviouslyFailed ==
    \A c \in cut :
        (\A w \in workers : w.file # c.file) =>
           /\ fs[CutDir(c)].lines = <<StartedLine(Name(c.file))>>
           /\ Classify(fs[CutDir(c)]) = "PreviouslyFailed"

\* C9 (amended): after such an interrupt the marker stays as begin_attempt
\* wrote it; the directory classifies as PreviouslyFailed, or as Done when
\* the worker has written results.pkl; every later run skips the descriptor
\* on that classification and starts no worker for the directory.
C9_InterruptLeavesSkipped ==
    \A c \in cut :
        /\ fs[CutDir(c)].marker
        /\ fs[CutDir(c)].lines = <<StartedLine(Name(c.file))>>
        /\ Classify(fs[CutDir(c)]) =
              (IF fs[CutDir(c)].results THEN "Done" ELSE "PreviouslyFailed")
        /\ (c.run < run =>
              /\ \A k \in DOMAIN spawned : current_output_dir(spawned[k]) # CutDir(c)
              /\ \A k \in DOMAIN trace :
                    trace[k].file = c.file =>
                       trace[k].out \in {"SkippedAlreadyDone", "SkippedPreviouslyFailed"})

\* C9 witness: a run after the interrupt has skipped the descriptor whose
\* attempt was cut.
C9_Witness ==
    \E c \in cut :
        /\ c.run < run
        /\ \E k \in DOMAIN trace : trace[k].file = c.file

\* The sorted descriptors, and the first of them that was NotStarted when
\* this run began and can be attempted, by position (0 when there is none).
Sorted == SortPaths(tree \cap Videos)
FirstOf(S) == IF S = {} THEN 0 ELSE CHOOSE j \in S : \A k \in S : j <= k
FirstToAttempt ==
    FirstOf({j \in DOMAIN Sorted :
                /\ startClass[current_output_dir(Sorted[j])] = "NotStarted"
                /\ Processable(Sorted[j])})

\* C10, read for the descriptors that can be attempted, which is less than
\* the claim states: after an interrupt at position i every descriptor before
\* i that has a camera id and a calibration file is Done or PreviouslyFailed,
\* and so is the one at i once its marker was written; the first worker of
\* the restarted run is for the first descriptor in sorted order that was
\* NotStarted and has a camera id and a calibration file.
C10_ResumesAtFirstAttemptable ==
    /\ (pc = "dead" =>
          /\ \A j \in 1..(i - 1) :
                (j \in DOMAIN video_files /\ Processable(video_files[j])) =>
                   Classify(fs[OutDirOf[video_files[j]]]) # "NotStarted"
          /\ (i \in DOMAIN video_files =>
                ([file |-> video_file, run |-> run] \in cut =>
                    Classify(fs[out]) # "NotStarted")))
    /\ (prev = "dead" /\ spawned # <<>> =>
          /\ FirstToAttempt # 0
          /\ spawned[1] = Sorted[FirstToAttempt])

\* The labels of the branches that skip a descriptor.
SkipLabels == {"SkippedAlreadyDone", "SkippedPreviouslyFailed",
               "SkippedNoCamera", "SkippedNoCalibration"}

\* The coordinator decides on the descriptor it has reached: it leaves the
\* skip tests of lines 115-134 by skipping or by beginning an attempt.
Decides ==
    /\ pc = "loop"
    /\ pc' \notin {"dead", "crashed"}
    /\ (pc' # "loop" \/ i' # i)

\* The descriptor reached has a camera id and a calibration file, and its
\* output directory holds neither results.pkl nor FAILED_RUN.txt.
Eligible ==
    /\ Processable(video_file)
    /\ ~(fs[out].dir /\ fs[out].results)
    /\ ~(fs[out].dir /\ fs[out].marker)

\* C11: the coordinator begins an attempt for the descriptor it has reached
\* exactly when the name has a camera id, the calibration file exists and the
\* output directory holds neither results.pkl nor FAILED_RUN.txt, and it
\* skips the descriptor otherwise; a worker is started only for a descriptor
\* whose attempt was begun. So every worker of a run is for a descriptor with
\* a camera id and a calibration file whose directory was NotStarted when the
\* run began: a directory left with a failure marker is never attempted again.
C11_SpawnIffEligible ==
    /\ [][Decides =>
            /\ (pc' = "open") = Eligible
            /\ (pc' # "open" =>
                  /\ i' = i + 1
                  /\ Settled.file = video_file
                  /\ Settled.out \in SkipLabels
                  /\ spawned' = spawned)]_vars
    /\ [][(spawned' # spawned /\ run' = run) =>
            /\ pc = "start"
            /\ spawned' = Append(spawned, video_file)]_vars
    /\ [][(pc' = "start" /\ pc # "start") => pc = "write"]_vars
    /\ [][(pc' = "write" /\ pc # "write") => pc = "open"]_vars
    /\ [][(pc' = "open" /\ pc # "open") => pc = "loop"]_vars
    /\ [](\A k \in DOMAIN spawned :
            /\ Processable(spawned[k])
            /\ startClass[OutDirOf[spawned[k]]] = "NotStarted")

\* C11 witness: a second run has skipped, as previously failed, a descriptor
\* whose worker crashed in the run before, and started no worker for it.
C11_Witness ==
    /\ run = 2
    /\ pc = "done"
    /\ \E k \in DOMAIN trace :
          LET e == fs[OutDirOf[trace[k].file]]
          IN /\ trace[k].out = "SkippedPreviouslyFailed"
             /\ e.lines # <<>>
             /\ e.lines[Len(e.lines)].kind = "oom"
             /\ \A j \in DOMAIN spawned : spawned[j] # trace[k].file

\* The two branches that skip a descriptor as unprocessable.
Unprocessable == {"SkippedNoCamera", "SkippedNoCalibration"}

\* C12 (the claim as stated): every descriptor without a camera id or without
\* its calibration file is skipped as unprocessable whatever its output
\* directory holds, and the two ledger skips are reported for processable
\* descriptors only.
C12_UnprocessableFirst ==
    \A k \in DOMAIN trace :
        /\ (~Processable(trace[k].file) => trace[k].out \in Unprocessable)
        /\ (trace[k].out \in {"SkippedAlreadyDone", "SkippedPreviouslyFailed"}
               => Processable(trace[k].file))

\* C12 (amended): the ledger classification comes before the unprocessable
\* check. A descriptor whose directory is Done is skipped as already done and
\* one whose directory is PreviouslyFailed as previously failed, processable
\* or not; a descriptor is skipped as unprocessable only when its directory is
\* NotStarted: for want of a camera id, or else of the calibration file.
C12_LedgerFirst ==
    [][Decides =>
         LET c == Classify(fs[out])
             skipped(label) == i' = i + 1 /\ Settled.out = label
         IN /\ (c = "Done" => skipped("SkippedAlreadyDone"))
            /\ (c = "PreviouslyFailed" => skipped("SkippedPreviouslyFailed"))
            /\ (c = "NotStarted" /\ Match[video_file] = {}
                  => skipped("SkippedNoCamera"))
            /\ (c = "NotStarted" /\ Match[video_file] # {}
                   /\ ~(Match[video_file] \subseteq calib)
                  => skipped("SkippedNoCalibration"))
            /\ (i' = i + 1 /\ Settled.out \in Unprocessable => c = "NotStarted")
      ]_vars

\* C12 witness: a descriptor without a camera id or calibration file was
\* skipped as already done.
C12_Witness ==
    \E k \in DOMAIN trace :
        /\ ~Processable(trace[k].file)
        /\ trace[k].out = "SkippedAlreadyDone"

\* C13: once the coordinator has recorded the success of a task whose worker
\* exited with code 0, the output directory of the task holds no failure
\* marker and classifies as Done.
C13_SuccessIsDone ==
    \A k \in DOMAIN trace :
        trace[k].out = "Completed" =>
            LET e == fs[OutDirOf[trace[k].file]]
            IN /\ ~e.marker
               /\ e.lines = <<>>
               /\ Classify(e) = "Done"

\* C14: the coordinator's decision on a descriptor reads the two markers with
\* results.pkl first: results.pkl present gives the skip of a Done directory
\* even when FAILED_RUN.txt is present too; otherwise FAILED_RUN.txt present
\* gives the skip of a PreviouslyFailed directory; otherwise neither of the
\* two. The two skips change no file or directory, and a decision changes at
\* most the existence of the output directory (line 139, when an attempt
\* begins).
C14_DoneHasPriority ==
    [][Decides =>
         LET e == fs[out]
             skipped(label) == i' = i + 1 /\ Settled.out = label
         IN /\ (e.dir /\ e.results =>
                  skipped("SkippedAlreadyDone") /\ fs' = fs)
            /\ (e.dir /\ ~e.results /\ e.marker =>
                  skipped("SkippedPreviouslyFailed") /\ fs' = fs)
            /\ (~(e.dir /\ e.results) /\ ~(e.dir /\ e.marker) =>
                  /\ ~skipped("SkippedAlreadyDone")
                  /\ ~skipped("SkippedPreviouslyFailed"))
            /\ (fs' # fs => pc' = "open" /\ fs' = [fs EXCEPT ![out].dir = TRUE])
      ]_vars

\* C14 witness: a descriptor whose directory holds both results.pkl and
\* FAILED_RUN.txt was skipped as already done.
C14_Witness ==
    \E k \in DOMAIN trace :
        LET e == fs[OutDirOf[trace[k].file]]
        IN /\ trace[k].out = "SkippedAlreadyDone"
           /\ e.results
           /\ e.marker

\* C15: results.pkl of an output directory changes only in a step of a worker
\* of that directory, which creates it; no step of the coordinator (scan,
\* skip, mkdir, marker write, success, failure) creates or removes it.
C15_ResultsOwnedByWorker ==
    [][\A d \in OutDirs :
          fs'[d].results # fs[d].results =>
             /\ fs'[d].results
             /\ \E w \in workers :
                   /\ w.alive
                   /\ ~w.wrote
                   /\ OutDirOf[w.file] = d
                   /\ [w EXCEPT !.wrote = TRUE] \in workers'
             /\ UNCHANGED <<pc, run, video_files, i, exitcode, trace, spawned>>
      ]_vars

\* C15 witness: the coordinator recorded the failure of a worker that had
\* saved results.pkl, and the file is still there.
C15_Witness ==
    \E k \in DOMAIN trace :
        LET e == fs[OutDirOf[trace[k].file]]
        IN /\ trace[k].out \in {"FailedOther", "CrashedOOM"}
           /\ e.results

\* C16: FAILED_RUN.txt of an output directory changes in four ways only. It
\* is created empty by the truncating open of an attempt, and only when no
\* marker existed; the "started" line is written into that empty file; one
\* reason line is appended after the existing content on a non-zero exit
\* code; it is deleted on exit code 0 and on no other path.
C16_MarkerAppendOnly ==
    [][\A d \in OutDirs :
          LET e == fs[d]
              f == fs'[d]
          IN (f.marker # e.marker \/ f.lines # e.lines) =>
               /\ pc \in Running
               /\ d = out
               /\ \/ /\ pc = "open"
                     /\ ~e.marker
                     /\ f.marker
                     /\ f.lines = <<>>
                  \/ /\ pc = "write"
                     /\ e.marker /\ f.marker
                     /\ e.lines = <<>>
                     /\ f.lines = <<StartedLine(Name(video_file))>>
                  \/ /\ pc = "check"
                     /\ exitcode # 0
                     /\ e.marker /\ f.marker
                     /\ Len(f.lines) = Len(e.lines) + 1
                     /\ SubSeq(f.lines, 1, Len(e.lines)) = e.lines
                     /\ f.lines[Len(f.lines)].kind \in {"oom", "failed"}
                  \/ /\ pc = "check"
                     /\ exitcode = 0
                     /\ e.marker /\ ~f.marker
      ]_vars

\* C16 witness: a failure was recorded after the "started" line of the
\* attempt, which is still the first line of the marker.
C16_Witness ==
    \E k \in DOMAIN trace :
        LET e == fs[OutDirOf[trace[k].file]]
        IN /\ trace[k].out = "FailedOther"
           /\ e.marker
           /\ Len(e.lines) = 2
           /\ e.lines[1] = StartedLine(Name(trace[k].file))
           /\ e.lines[2].kind = "failed"

\* Two strings that differ at most in the case of their letters.
SameIgnoringCase(s, t) ==
    /\ Len(s) = Len(t)
    /\ \A k \in 1..Len(s) : LowerChar(s[k]) = LowerChar(t[k])

\* The paths whose extension is in the allow-list, case ignored, and those of
\* them that the tree holds.
Allowed ==
    {p \in Universe : \E ext \in video_extensions :
                         SameIgnoringCase(Suffix(Name(p)), ext)}
AllowListed == tree \cap Allowed

\* The pairs of paths in ascending order.
Ascending == {pq \in Universe \X Universe : PathLess(pq[1], pq[2])}

\* C17: the scan at the start of a run changes no file, directory, marker or
\* worker; whatever order the directory walk takes, the list it yields holds
\* exactly the files of the tree whose extension is in the allow-list, case
\* ignored, each once and in ascending path order. There is one such list,
\* so any two walks give the same one, and a later scan of the unchanged tree
\* repeats the earlier one. An invocation killed before its loop changes
\* nothing either, and yields no list.
C17_ScanDeterministicPure ==
    [][run' = run + 1 =>
            /\ UNCHANGED <<env, fs, workers>>
            /\ (input_exists /\ pc' # "dead" =>
                  /\ {video_files'[k] : k \in DOMAIN video_files'} = AllowListed
                  /\ Len(video_files') = Cardinality(AllowListed)
                  /\ \A a, b \in DOMAIN video_files' :
                        a < b => <<video_files'[a], video_files'[b]>> \in Ascending)
            /\ (input_exists /\ pc' # "dead" /\ video_files # <<>> =>
                  video_files' = video_files)
      ]_vars

\* C17 witness: a second scan has listed two videos, one of them by an
\* extension spelled in upper case, out of a walk that can yield them in
\* either order.
C17_Witness ==
    /\ run = 2
    /\ Len(video_files) = 2
    /\ \E k \in DOMAIN video_files :
          Suffix(Name(video_files[k])) \notin video_extensions
    /\ \E w \in WalkOrders(tree) : Found(w) # video_files

\* C18: when a run has gone through its descriptors, main() has written a
\* final report: a message after the per-descriptor ones that carries the
\* per-outcome counts and the tasks that crashed or failed; and every settled
\* descriptor, a completed one included, has an outcome message of its own.
C18_FinalReport ==
    (pc = "done" /\ trace # <<>>) =>
        /\ Output[Len(Output)].kind = "report"
        /\ \A k \in DOMAIN trace :
              \E m \in DOMAIN Output :
                 /\ Output[m].file = trace[k].file
                 /\ Output[m].kind # "spawning"

\* C19: a step of the coordinator that skips the descriptor it has reached
\* changes no output directory, marker or result and starts no worker; and a
\* run over a missing input root or a tree without videos is over after its
\* scan, having changed nothing and visited nothing.
C19_SkipTouchesNothing ==
    /\ [][(pc = "loop" /\ i' = i + 1) =>
            /\ Settled.out \in SkipLabels
            /\ fs' = fs
            /\ workers' = workers
            /\ spawned' = spawned
            /\ UNCHANGED env]_vars
    /\ [][(run' = run + 1 /\ (~input_exists \/ AllowListed = {})) =>
            /\ pc' \in {"done", "dead"}
            /\ video_files' = <<>>
            /\ fs' = fs
            /\ workers' = workers
            /\ UNCHANGED env]_vars
    /\ [](pc = "done" /\ video_files = <<>> => trace = <<>> /\ spawned = <<>>)

\* C19 witness: a descriptor was skipped for want of its calibration file and
\* its output directory does not exist.
C19_Witness ==
    \E k \in DOMAIN trace :
        /\ trace[k].out = "SkippedNoCalibration"
        /\ ~fs[OutDirOf[trace[k].file]].dir

\* The branches that end an attempt.
Attempted == {"Completed", "CrashedOOM", "FailedOther"}

\* C20: within one run no two workers are started for the same output
\* directory, also when two files of the scan derive the same directory; a
\* descriptor that comes after an attempted one with the same output
\* directory is skipped on the ledger state the attempt left.
C20_OneWorkerPerOutputDir ==
    /\ \A a, b \in DOMAIN spawned :
          a # b => OutDirOf[spawned[a]] # OutDirOf[spawned[b]]
    /\ \A j, k \in DOMAIN trace :
          (/\ j < k
           /\ OutDirOf[trace[j].file] = OutDirOf[trace[k].file]
           /\ trace[j].out \in Attempted)
             => trace[k].out \in {"SkippedAlreadyDone", "SkippedPreviouslyFailed"}

====
